---- MODULE Spec2Model ----
(***************************************************************************)
(* A model of static/app.js of PromptWizard: the client-side state of the  *)
(* key bar (per-provider API keys: localStorage, the in-memory keyCache,   *)
(* the masked display field, the debounced POST /api/keys, the hydration   *)
(* GET /api/keys) and of the reference-image stash (imageItems, the file   *)
(* input's file list, the preview object URLs, the generate button), and   *)
(* of the copy controls (labels, clipboard writes, revert timeouts).       *)
(*                                                                         *)
(* Four specifications share the variables:                                *)
(*   SpecStash  the image stash (lines 169-256, 280-282),                  *)
(*   SpecKeys   the key bar (lines 1-124), with page loads and time,       *)
(*   SpecMask   maskKey (lines 34-37) applied to keys of every length,     *)
(*   SpecCopy   the copy controls (lines 258-278), with time.              *)
(* The parts of the script share no state, so each specification leaves    *)
(* the other parts' variables unchanged.                                   *)
(***************************************************************************)
EXTENDS Integers, Sequences, FiniteSets, TLC

VARIABLES
  \* ---- image stash (app.js 169-256) ----
  imageItems,      \* let imageItems: sequence of [id, file, url]
  inputFiles,      \* imageInput.files: sequence of files
  previewCards,    \* children of #image-preview: sequence of [src, removeId]
  previewHidden,   \* #image-preview has class 'hidden'
  generateButton,  \* [disabled, opacity60, pointerEventsNone, ariaDisabled]
  urlCounter,      \* number of object URLs minted by URL.createObjectURL
  revokedUrls,     \* object URLs passed to URL.revokeObjectURL
  revokeCalls,     \* object URL -> number of URL.revokeObjectURL calls on it
  issuedIds,       \* history: id token -> times Math.random has drawn it (0, 1, many)
  lastOp,          \* history: the last handler that ran, [op, ...facts]
  \* ---- key bar (app.js 1-124) ----
  pc,              \* position of the page: "boot", "guarded", "ready"
  appInstance,     \* document.body.dataset.appInstance of the loaded page
  localStorage,    \* storage key -> {} (no entry) or {value}
  keyCache,        \* const keyCache: provider -> {} (undefined) or {value}
  providerSelect,  \* providerSelect.value
  providerInput,   \* providerInput.value
  placeholder,     \* apiKeyVisible.placeholder
  apiKeyVisible,   \* [value, masked]: the display field and its dataset.masked
  apiKeyInput,     \* apiKeyInput.value (the hidden field)
  focused,         \* the display field has the focus
  keyUpdateTimer,  \* the pending timeouts of scheduleKeySync: {} or {[provider, key, remaining]}
  hydrations,      \* provider -> number of GET /api/keys requests in flight
  keyNote,         \* history: what the last key-bar step did
  burst,           \* history: the current burst of edits and its writes
  dirty,           \* history: provider -> its last typed value is unsent
  \* ---- maskKey applied to sample keys ----
  maskInput,       \* the key handed to maskKey
  maskOutput,      \* {} or {maskKey(maskInput)}
  \* ---- copy controls (app.js 258-278) ----
  copyLabels,      \* copy button -> textContent of its .copy-label ("none": no label)
  copyPending,     \* target -> number of clipboard.writeText promises pending
  copyTimers,      \* the pending revert timeouts: {[button, remaining]}
  sinceCopied,     \* history: target -> {} or {time since its last successful copy}
  copyLast         \* history: the last copy step

stashVars == <<imageItems, inputFiles, previewCards, previewHidden,
               generateButton, urlCounter, revokedUrls, revokeCalls,
               issuedIds, lastOp>>

keyVars == <<pc, appInstance, localStorage, keyCache, providerSelect,
             providerInput, placeholder, apiKeyVisible, apiKeyInput, focused,
             keyUpdateTimer, hydrations, keyNote, burst, dirty>>

maskVars == <<maskInput, maskOutput>>

copyVars == <<copyLabels, copyPending, copyTimers, sinceCopied, copyLast>>

vars == <<stashVars, keyVars, maskVars, copyVars>>

Min(a, b) == IF a < b THEN a ELSE b
Max(a, b) == IF a > b THEN a ELSE b

(***************************************************************************)
(* Strings the code inspects character by character are sequences of       *)
(* one-character strings.                                                  *)
(***************************************************************************)
\* String.prototype.startsWith
startsWith(s, prefix) ==
  /\ Len(s) >= Len(prefix)
  /\ SubSeq(s, 1, Len(prefix)) = prefix

ImagePrefix == <<"i", "m", "a", "g", "e", "/">>

\* Candidate files (File objects): a name and a declared media type.
imgA == [name |-> "a.png", type |-> ImagePrefix \o <<"p", "n", "g">>]
nonImageC == [name |-> "c.txt",
              type |-> <<"t", "e", "x", "t", "/", "p", "l", "a", "i", "n">>]
Files == {imgA, nonImageC}

\* The cap of the stash (app.js 217).
MaxImages == 6

\* Bounds of the stash model.
MaxBatch == 2     \* candidates per drop or file-picker selection
MaxUrls == 6      \* object URLs minted in one page load

\* Tokens Math.random().toString(36).slice(2, 9) can return (218): two of
\* them, so that a draw can both differ from and repeat an earlier one.
IdSpace == {"k3x9q2a", "p0m4z7c"}

RECURSIVE SeqsUpTo(_, _)
SeqsUpTo(S, n) ==
  IF n = 0 THEN {<<>>}
  ELSE LET shorter == SeqsUpTo(S, n - 1)
       IN  shorter \cup {Append(q, e) : q \in {r \in shorter : Len(r) = n - 1}, e \in S}

\* Every batch of at most MaxBatch candidates, and one longer batch in which
\* a non-image stands between two images.
Batches == SeqsUpTo(Files, MaxBatch) \cup {<<imgA, nonImageC, imgA>>}

(***************************************************************************)
(* Image stash: the functions of app.js 176-235.  Each takes the state it  *)
(* reads and returns the value it assigns.                                 *)
(***************************************************************************)

\* rebuildInputFiles (176-180): a fresh DataTransfer holding every item's
\* file in list order, assigned to imageInput.files.
rebuildInputFiles(items) == [i \in 1..Len(items) |-> items[i].file]

\* updateGenerateState with the test off by one (length <= 1).
updateGenerateState_offByOne(items) ==
  LET disabled == (Len(items) <= 1)
  IN  [disabled |-> disabled,
       opacity60 |-> disabled,
       pointerEventsNone |-> disabled,
       ariaDisabled |-> IF disabled THEN "true" ELSE "false"]

\* updateGenerateState (182-188): disabled, both classes and aria-disabled
\* all follow imageItems.length === 0.
updateGenerateState(items) ==
  LET disabled == (Len(items) = 0)
  IN  [disabled |-> disabled,
       opacity60 |-> disabled,
       pointerEventsNone |-> disabled,
       ariaDisabled |-> IF disabled THEN "true" ELSE "false"]

\* renderPreviews (190-212): one card per item, in order, carrying the
\* item's url as img src and the item's id as data-remove-id.
renderPreviews(items) ==
  [i \in 1..Len(items) |-> [src |-> items[i].url, removeId |-> items[i].id]]

\* renderPreviews (192-196): the 'hidden' class of the gallery.
renderHidden(items) == (Len(items) = 0)

\* addLoop with the loop left at the first rejected candidate (a for loop
\* with break where the code has forEach with return).
RECURSIVE addLoop_break(_, _, _, _)
addLoop_break(items, files, ids, counter) ==
  IF files = <<>> THEN items
  ELSE IF ~startsWith(Head(files).type, ImagePrefix) THEN items
  ELSE IF Len(items) >= MaxImages THEN items
  ELSE addLoop_break(Append(items, [id |-> Head(ids), file |-> Head(files), url |-> counter + 1]),
                     Tail(files), Tail(ids), counter + 1)

\* The forEach body of addFiles (215-220) over the candidates in order.
\* ids lists what Math.random().toString(36).slice(2, 9) returns, one
\* token per accepted candidate; counter counts the URLs minted so far, and
\* URL.createObjectURL returns a URL never returned before.
RECURSIVE addLoop(_, _, _, _)
addLoop(items, files, ids, counter) ==
  IF files = <<>> THEN items
  ELSE IF ~startsWith(Head(files).type, ImagePrefix)
         THEN addLoop(items, Tail(files), ids, counter)
  ELSE IF Len(items) >= MaxImages
         THEN addLoop(items, Tail(files), ids, counter)
  ELSE addLoop(Append(items, [id |-> Head(ids), file |-> Head(files), url |-> counter + 1]),
               Tail(files), Tail(ids), counter + 1)

\* addFiles (214-224): the item list after the loop.
addFiles(items, files, ids, counter) == addLoop(items, files, ids, counter)

\* How many calls of Math.random() the loop makes: one per accepted file.
ImageCount(files) == Cardinality({i \in 1..Len(files) : startsWith(files[i].type, ImagePrefix)})

DrawCount(items, files) == Min(ImageCount(files), MaxImages - Len(items))

\* removeFileById (227): imageItems.find((item) => item.id === id);
\* the index of the first match, 0 when there is none.
findIndex(items, id) ==
  IF \E i \in 1..Len(items) : items[i].id = id
    THEN CHOOSE i \in 1..Len(items) :
           /\ items[i].id = id
           /\ \A j \in 1..(i - 1) : items[j].id # id
    ELSE 0

\* The removal written as imageItems.splice(index, 1) with the index of the
\* match: with no match the index is -1 and splice drops the last item.
filterOut_splice(items, id) ==
  LET hit == {i \in 1..Len(items) : items[i].id = id}
      at == IF hit = {} THEN Len(items) ELSE CHOOSE i \in hit : \A j \in hit : i <= j
  IN  [k \in 1..(Len(items) - (IF items = <<>> THEN 0 ELSE 1)) |->
         IF k < at THEN items[k] ELSE items[k + 1]]

\* removeFileById (231): imageItems.filter((item) => item.id !== id).
filterOut(items, id) == SelectSeq(items, LAMBDA item : item.id # id)

\* removeFileById (227-230): the URLs revoked after the call.
revokeTarget(items, id, revoked) ==
  IF findIndex(items, id) # 0
    THEN revoked \cup {items[findIndex(items, id)].url}
    ELSE revoked

\* URL.revokeObjectURL(url) (229): one more call on url.
revokeObjectURL(calls, url) ==
  [u \in DOMAIN calls \cup {url} |->
     IF u \in DOMAIN calls
       THEN calls[u] + (IF u = url THEN 1 ELSE 0)
       ELSE 1]

\* removeFileById (227-230): the calls of URL.revokeObjectURL after it.
revokeCallsAfter(items, id, calls) ==
  IF findIndex(items, id) # 0
    THEN revokeObjectURL(calls, items[findIndex(items, id)].url)
    ELSE calls

\* History only: the draws of Math.random (218) so far, per token, after
\* the tokens in ids have been drawn.
RECURSIVE DrawsAfter(_, _)
DrawsAfter(issued, ids) ==
  IF ids = <<>> THEN issued
  ELSE DrawsAfter([issued EXCEPT ![Head(ids)] = Min(2, @ + 1)], Tail(ids))

\* History only: what the last addFiles call met in its batch.
AddFacts(op, items, files) ==
  [op |-> op,
   droppedNonImage |-> (ImageCount(files) < Len(files)),
   droppedAtCap |-> (Len(items) + ImageCount(files) > MaxImages),
   accepted |-> DrawCount(items, files),
   idPresent |-> FALSE]

PlainOp(op) ==
  [op |-> op, droppedNonImage |-> FALSE, droppedAtCap |-> FALSE, accepted |-> 0,
   idPresent |-> FALSE]

(***************************************************************************)
(* Image stash: the event handlers.                                        *)
(***************************************************************************)

\* The part every addFiles caller shares: the loop, then rebuildInputFiles,
\* renderPreviews and updateGenerateState (221-223) on the new list.
AddFilesCall(files, ids) ==
  LET after == addFiles(imageItems, files, ids, urlCounter)
  IN  /\ urlCounter + (Len(after) - Len(imageItems)) <= MaxUrls
      /\ imageItems' = after
      /\ urlCounter' = urlCounter + (Len(after) - Len(imageItems))
      /\ previewCards' = renderPreviews(after)
      /\ previewHidden' = renderHidden(after)
      /\ generateButton' = updateGenerateState(after)
      /\ revokedUrls' = revokedUrls
      /\ revokeCalls' = revokeCalls
      /\ issuedIds' = DrawsAfter(issuedIds, ids)
      /\ UNCHANGED <<keyVars, maskVars, copyVars>>

\* dropzone 'drop' (241-244): addFiles(event.dataTransfer.files).
Drop(files) ==
  \E ids \in [1..DrawCount(imageItems, files) -> IdSpace] :
    /\ AddFilesCall(files, ids)
    /\ inputFiles' = rebuildInputFiles(imageItems')
    /\ lastOp' = AddFacts("drop", imageItems, files)

\* imageInput 'change' (245-248): the picker has put its selection into the
\* input; addFiles(event.target.files), then imageInput.value = '', which
\* on a file input empties its list of selected files.
Change(files) ==
  \E ids \in [1..DrawCount(imageItems, files) -> IdSpace] :
    /\ files # <<>>
    /\ AddFilesCall(files, ids)
    /\ inputFiles' = <<>>
    /\ lastOp' = AddFacts("change", imageItems, files)

\* removeFileById (226-235).
RemoveCall(id) ==
  LET after == filterOut(imageItems, id)
  IN  /\ revokedUrls' = revokeTarget(imageItems, id, revokedUrls)
      /\ imageItems' = after
      /\ inputFiles' = rebuildInputFiles(after)
      /\ previewCards' = renderPreviews(after)
      /\ previewHidden' = renderHidden(after)
      /\ generateButton' = updateGenerateState(after)
      /\ urlCounter' = urlCounter
      /\ revokeCalls' = revokeCallsAfter(imageItems, id, revokeCalls)
      /\ issuedIds' = issuedIds
      /\ UNCHANGED <<keyVars, maskVars, copyVars>>

\* imagePreview 'click' (250-254) on the remove button of the i-th card:
\* removeFileById(button.dataset.removeId).
ClickRemove(i) ==
  /\ i \in 1..Len(previewCards)
  /\ RemoveCall(previewCards[i].removeId)
  /\ lastOp' = [PlainOp("clickRemove") EXCEPT !.idPresent = TRUE]

\* removeFileById (226-235) called with an id no rendered button carries:
\* the not-found path of the function.
RemoveAbsent(id) ==
  /\ \A i \in 1..Len(imageItems) : imageItems[i].id # id
  /\ RemoveCall(id)
  /\ lastOp' = PlainOp("removeAbsent")

\* document 'htmx:afterSwap' (280-282): updateGenerateState().
AfterSwap ==
  /\ generateButton' = updateGenerateState(imageItems)
  /\ lastOp' = PlainOp("afterSwap")
  /\ UNCHANGED <<imageItems, inputFiles, previewCards, previewHidden,
                 urlCounter, revokedUrls, revokeCalls, issuedIds>>
  /\ UNCHANGED <<keyVars, maskVars, copyVars>>

\* The stash after the script has run: imageItems = [] (174), the input
\* and the gallery as the page ships them, updateGenerateState() (256).
InitStash ==
  /\ imageItems = <<>>
  /\ inputFiles = <<>>
  /\ previewCards = <<>>
  /\ previewHidden = TRUE
  /\ generateButton = updateGenerateState(<<>>)
  /\ urlCounter = 0
  /\ revokedUrls = {}
  /\ revokeCalls = [u \in {} |-> 0]
  /\ issuedIds = [id \in IdSpace |-> 0]
  /\ lastOp = PlainOp("init")


(***************************************************************************)
(* Key bar: constants and pure functions of app.js 8-37.  Credentials are  *)
(* sequences of one-character strings; '' is <<>>.  A value that may be    *)
(* null or undefined is a set: {} or {value}.                              *)
(***************************************************************************)

STORAGE_PROVIDER == "prompt_alchemy_provider"
STORAGE_SESSION == "prompt_alchemy_session"

\* providerLabels (10-14).
providerLabels == [gemini |-> "Gemini", openai |-> "OpenAI", grok |-> "Grok"]

Providers == DOMAIN providerLabels

\* getStorageKey (32).
getStorageKey(provider) == provider \o "_api_key"

StorageKeys == {getStorageKey(p) : p \in Providers} \cup {STORAGE_PROVIDER, STORAGE_SESSION}

MaskGlyph == "*"

\* String.prototype.repeat.
repeat(glyph, n) == [i \in 1..n |-> glyph]

\* maskKey with Math.max and Math.min exchanged.
maskKey_swapped(key) == repeat(MaskGlyph, Min(6, Max(Len(key), 32)))

\* maskKey (34-37).
maskKey(key) == repeat(MaskGlyph, Max(6, Min(Len(key), 32)))

\* JavaScript truthiness of a string that may be undefined or null.
Truthy(v) == v # {} /\ v # {<<>>}

\* v || '' for a string that may be null.
OrEmpty(v) == IF Truthy(v) THEN CHOOSE x \in v : TRUE ELSE <<>>

\* The credentials the user types or pastes and the backend holds.
KeyA == <<"s", "k", "-", "1", "2", "3", "4", "5">>
KeyB == <<"g", "m", "-", "9", "8", "7", "6">>
Keys == {KeyA, KeyB}

\* The credential the backend's environment holds for a provider, returned
\* by GET /api/keys when it holds one.
EnvKeys == {KeyA}

\* The session tokens a page can be served with.
Tokens == {"A", "B"}

\* The providers the user picks in the select during the modelled runs.
SelectedProviders == {"gemini", "openai"}

\* What an earlier session, served with a token that is gone, can have left
\* in localStorage: the third provider selected and keys stored.
StaleStorage ==
  [k \in StorageKeys |->
     CASE k = "grok_api_key" -> {KeyB}
       [] k = "openai_api_key" -> {KeyA}
       [] k = STORAGE_PROVIDER -> {"grok"}
       [] k = STORAGE_SESSION -> {"Z"}
       [] OTHER -> {}]

\* The delay of the debounced write (83).
DebounceDelay == 400

\* Bounds of the key-bar model.
TicksPerDelay == 2   \* clock steps per debounce delay
MaxInFlight == 2     \* GET /api/keys requests in flight at once

TickStep == DebounceDelay \div TicksPerDelay

(***************************************************************************)
(* Key bar: the functions of app.js 17-84, as the assignments they make.   *)
(***************************************************************************)

\* clearLocalState without the removeItem of line 20.
clearLocalState_keepsGrok(storage) ==
  [k \in StorageKeys |->
     IF k \in {"gemini_api_key", "openai_api_key", STORAGE_PROVIDER}
       THEN {} ELSE storage[k]]

\* clearLocalState (17-22): the storage after the four removeItem calls.
clearLocalState(storage) ==
  [k \in StorageKeys |->
     IF k \in {"gemini_api_key", "openai_api_key", "grok_api_key", STORAGE_PROVIDER}
       THEN {} ELSE storage[k]]

\* ensureFreshLocalStorage (24-30): the storage it leaves.
ensureFreshLocalStorage(storage, instance) ==
  IF storage[STORAGE_SESSION] # {instance}
    THEN [clearLocalState(storage) EXCEPT ![STORAGE_SESSION] = {instance}]
    ELSE storage

\* applyMaskedKey (39-45).
applyMaskedKey(provider, key) ==
  IF key = <<>>
    THEN UNCHANGED <<keyCache, apiKeyInput, apiKeyVisible>>
    ELSE /\ keyCache' = [keyCache EXCEPT ![provider] = {key}]
         /\ apiKeyInput' = key
         /\ apiKeyVisible' = [value |-> maskKey(key), masked |-> "true"]

\* hydrateFromEnv (47-48): the fetch is issued.
hydrateFromEnv(provider) ==
  hydrations' = [hydrations EXCEPT ![provider] = @ + 1]

InFlight == hydrations["gemini"] + hydrations["openai"] + hydrations["grok"]

\* syncProvider (58-71).
syncProvider(provider, storage) ==
  LET storedKey == OrEmpty(storage[getStorageKey(provider)])
  IN  /\ providerInput' = provider
      /\ localStorage' = [storage EXCEPT ![STORAGE_PROVIDER] = {provider}]
      /\ placeholder' = "Paste " \o providerLabels[provider] \o " API Key"
      /\ IF storedKey # <<>>
           THEN /\ applyMaskedKey(provider, storedKey)
                /\ UNCHANGED hydrations
           ELSE /\ apiKeyVisible' = [value |-> <<>>, masked |-> "false"]
                /\ apiKeyInput' = <<>>
                /\ UNCHANGED keyCache
                /\ InFlight < MaxInFlight
                /\ hydrateFromEnv(provider)

\* scheduleKeySync without the clearTimeout of lines 75-77: the earlier
\* timeout stays pending beside the new one.
scheduleKeySync_noClear(provider, key) ==
  keyUpdateTimer' = keyUpdateTimer \cup
                      {[provider |-> provider, key |-> key, remaining |-> DebounceDelay]}

\* scheduleKeySync (74-84): clearTimeout of the pending timer if any, then
\* a timeout of 400 that captures (provider, key).
scheduleKeySync(provider, key) ==
  keyUpdateTimer' = {[provider |-> provider, key |-> key, remaining |-> DebounceDelay]}


(***************************************************************************)
(* Key bar: history variables.  They record what has happened and are      *)
(* read by no handler.                                                     *)
(***************************************************************************)

NoNote == [guard |-> "none", hadEntries |-> FALSE, emptySwitch |-> FALSE,
           focusFrom |-> {}]

NoBurst == [edits |-> 0, same |-> TRUE, writes |-> 0, sinceEdit |-> 0,
            lastEdit |-> {}, lastWrite |-> {}, firedAway |-> FALSE]

SinceCap == DebounceDelay + TickStep

\* A non-empty edit (provider, key): it continues the burst when it comes
\* within the debounce delay of the previous edit, else it starts one.
BurstAfterEdit(provider, key) ==
  LET cont == burst.edits > 0 /\ burst.sinceEdit < DebounceDelay
  IN  [edits |-> IF cont THEN Min(2, burst.edits + 1) ELSE 1,
       same |-> IF cont
                  THEN burst.same /\ (\A e \in burst.lastEdit : e.provider = provider)
                  ELSE TRUE,
       writes |-> IF cont THEN burst.writes ELSE 0,
       sinceEdit |-> 0,
       lastEdit |-> {[provider |-> provider, key |-> key]},
       lastWrite |-> IF cont THEN burst.lastWrite ELSE {},
       firedAway |-> IF cont THEN burst.firedAway ELSE FALSE]

(***************************************************************************)
(* Key bar: the steps of the script (86-90) and the event handlers.        *)
(***************************************************************************)

\* Line 86: ensureFreshLocalStorage().
EnsureFresh ==
  /\ pc = "boot"
  /\ pc' = "guarded"
  /\ localStorage' = ensureFreshLocalStorage(localStorage, appInstance)
  /\ keyNote' = [guard |-> IF localStorage[STORAGE_SESSION] # {appInstance}
                             THEN "wiped" ELSE "kept",
                 hadEntries |-> \E p \in Providers : localStorage[getStorageKey(p)] # {},
                 emptySwitch |-> FALSE,
                 focusFrom |-> {}]
  /\ UNCHANGED <<appInstance, keyCache, providerSelect, providerInput, placeholder,
                 apiKeyVisible, apiKeyInput, focused, keyUpdateTimer, hydrations,
                 burst, dirty>>
  /\ UNCHANGED <<stashVars, maskVars, copyVars>>

\* Lines 88-90: initialProvider, providerSelect.value, syncProvider.
InitialSync ==
  LET initialProvider == IF localStorage[STORAGE_PROVIDER] = {}
                           THEN "gemini"
                           ELSE CHOOSE x \in localStorage[STORAGE_PROVIDER] : TRUE
  IN  /\ pc = "guarded"
      /\ pc' = "ready"
      /\ providerSelect' = initialProvider
      /\ syncProvider(initialProvider, localStorage)
      /\ keyNote' = [NoNote EXCEPT
                       !.emptySwitch = (localStorage[getStorageKey(initialProvider)] = {})]
      /\ UNCHANGED <<appInstance, focused, keyUpdateTimer, burst, dirty>>
      /\ UNCHANGED <<stashVars, maskVars, copyVars>>

\* providerSelect 'change' (92-94).  The user reaches the select from
\* outside the display field, so the field does not hold the focus.
ProviderChange(provider) ==
  /\ pc = "ready"
  /\ ~focused
  /\ provider # providerSelect
  /\ providerSelect' = provider
  /\ syncProvider(provider, localStorage)
  /\ keyNote' = [keyNote EXCEPT
                   !.emptySwitch = (localStorage[getStorageKey(provider)] = {}),
                   !.focusFrom = {}]
  /\ UNCHANGED <<pc, appInstance, focused, keyUpdateTimer, burst, dirty>>
  /\ UNCHANGED <<stashVars, maskVars, copyVars>>

\* apiKeyVisible 'focus' (96-101).
Focus ==
  /\ pc = "ready"
  /\ ~focused
  /\ focused' = TRUE
  /\ IF apiKeyVisible.masked = "true"
       THEN apiKeyVisible' = [value |-> <<>>, masked |-> "false"]
       ELSE UNCHANGED apiKeyVisible
  /\ keyNote' = [keyNote EXCEPT !.focusFrom = {apiKeyVisible}]
  /\ UNCHANGED <<pc, appInstance, localStorage, keyCache, providerSelect,
                 providerInput, placeholder, apiKeyInput, keyUpdateTimer,
                 hydrations, burst, dirty>>
  /\ UNCHANGED <<stashVars, maskVars, copyVars>>

\* The blur handler without the restore of lines 106-108.
Blur_noRestore ==
  /\ pc = "ready"
  /\ focused
  /\ focused' = FALSE
  /\ UNCHANGED <<keyCache, apiKeyInput, apiKeyVisible>>
  /\ UNCHANGED <<pc, appInstance, localStorage, providerSelect, providerInput,
                 placeholder, keyUpdateTimer, hydrations, keyNote, burst, dirty>>
  /\ UNCHANGED <<stashVars, maskVars, copyVars>>

\* apiKeyVisible 'blur' (103-109).
Blur ==
  LET provider == providerInput
      key == keyCache[provider]
  IN  /\ pc = "ready"
      /\ focused
      /\ focused' = FALSE
      /\ IF apiKeyVisible.value = <<>> /\ Truthy(key)
           THEN applyMaskedKey(provider, OrEmpty(key))
           ELSE UNCHANGED <<keyCache, apiKeyInput, apiKeyVisible>>
      /\ UNCHANGED <<pc, appInstance, localStorage, providerSelect, providerInput,
                     placeholder, keyUpdateTimer, hydrations, keyNote, burst, dirty>>
      /\ UNCHANGED <<stashVars, maskVars, copyVars>>

\* The character a keystroke adds.
TypedChar == "x"

\* A keystroke into a field that shows a masked projection: the projection
\* with the typed character after it.  (A keystroke into typed text gives
\* typed text, which Keys stands for.)
Keystroke(current) ==
  IF current # <<>> /\ \A i \in 1..Len(current) : current[i] = MaskGlyph
    THEN {Append(current, TypedChar)}
    ELSE {}

\* Every result of a keystroke into a projection of a backend value.
TypedOntoMask == {Append(maskKey(k), TypedChar) : k \in EnvKeys}

\* What one edit can leave in the display field: a pasted or typed
\* credential, nothing, or the shown projection with a character typed
\* after it.  The input event fires when the content changed.
EditResults(current) == ((Keys \cup {<<>>}) \ {current}) \cup Keystroke(current)

\* apiKeyVisible 'input' (111-124); key is event.target.value, which the
\* browser has put into the field before the handler runs.
Input(key) ==
  LET provider == providerInput
  IN  /\ pc = "ready"
      /\ focused
      /\ key \in EditResults(apiKeyVisible.value)
      /\ apiKeyVisible' = [apiKeyVisible EXCEPT !.value = key]
      /\ IF key = <<>>
           THEN /\ apiKeyInput' = <<>>
                /\ keyCache' = [keyCache EXCEPT ![provider] = {<<>>}]
                /\ localStorage' = [localStorage EXCEPT ![getStorageKey(provider)] = {}]
                /\ UNCHANGED keyUpdateTimer
                /\ burst' = NoBurst
                /\ UNCHANGED dirty
           ELSE /\ keyCache' = [keyCache EXCEPT ![provider] = {key}]
                /\ apiKeyInput' = key
                /\ localStorage' = [localStorage EXCEPT ![getStorageKey(provider)] = {key}]
                /\ scheduleKeySync(provider, key)
                /\ burst' = BurstAfterEdit(provider, key)
                /\ dirty' = [dirty EXCEPT ![provider] = TRUE]
      /\ keyNote' = [keyNote EXCEPT !.emptySwitch = FALSE, !.focusFrom = {}]
      /\ UNCHANGED <<pc, appInstance, providerSelect, providerInput, placeholder,
                     focused, hydrations>>
      /\ UNCHANGED <<stashVars, maskVars, copyVars>>

\* The callback of the timeout with the form data read from the fields when
\* it runs (providerInput.value, apiKeyInput.value), not from its closure.
TimerFire_readsActive ==
  /\ pc = "ready"
  /\ \E t \in keyUpdateTimer :
       /\ t.remaining = 0
       /\ burst' = [burst EXCEPT
                      !.writes = Min(2, @ + 1),
                      !.lastWrite = {[provider |-> providerInput, key |-> apiKeyInput]},
                      !.firedAway = (t.provider # providerInput)]
       /\ dirty' = [dirty EXCEPT ![providerInput] = FALSE]
       /\ keyUpdateTimer' = keyUpdateTimer \ {t}
  /\ UNCHANGED <<pc, appInstance, localStorage, keyCache, providerSelect,
                 providerInput, placeholder, apiKeyVisible, apiKeyInput, focused,
                 hydrations, keyNote>>
  /\ UNCHANGED <<stashVars, maskVars, copyVars>>

\* The callback of the timeout (78-83): POST /api/keys with the captured
\* provider and key; a failure of the request is swallowed.
TimerFire ==
  /\ pc = "ready"
  /\ \E t \in keyUpdateTimer :
       /\ t.remaining = 0
       /\ burst' = [burst EXCEPT
                      !.writes = Min(2, @ + 1),
                      !.lastWrite = {[provider |-> t.provider, key |-> t.key]},
                      !.firedAway = (t.provider # providerInput)]
       /\ dirty' = [dirty EXCEPT ![t.provider] = FALSE]
       /\ keyUpdateTimer' = keyUpdateTimer \ {t}
  /\ UNCHANGED <<pc, appInstance, localStorage, keyCache, providerSelect,
                 providerInput, placeholder, apiKeyVisible, apiKeyInput, focused,
                 hydrations, keyNote>>
  /\ UNCHANGED <<stashVars, maskVars, copyVars>>

\* Time passes: by one clock step, or up to the deadline of the pending
\* timeout when that is nearer.  A timeout that is due runs before more
\* time passes.
Tick ==
  LET due == {t.remaining : t \in keyUpdateTimer}
      d == IF \E r \in due : r < TickStep
             THEN CHOOSE r \in due : \A q \in due : r <= q
             ELSE TickStep
  IN  /\ pc = "ready"
      /\ \A t \in keyUpdateTimer : t.remaining > 0
      /\ keyUpdateTimer # {} \/ (burst.edits > 0 /\ burst.sinceEdit < SinceCap)
      /\ keyUpdateTimer' = {[t EXCEPT !.remaining = @ - d] : t \in keyUpdateTimer}
      /\ burst' = IF burst.edits > 0
                    THEN [burst EXCEPT !.sinceEdit = Min(SinceCap, @ + d)]
                    ELSE burst
      /\ UNCHANGED <<pc, appInstance, localStorage, keyCache, providerSelect,
                     providerInput, placeholder, apiKeyVisible, apiKeyInput, focused,
                     hydrations, keyNote, dirty>>
      /\ UNCHANGED <<stashVars, maskVars, copyVars>>

\* The response handled as a user-entered value is: cached, stored, masked
\* and also sent back through scheduleKeySync.
HydrateResponse_writesBack(provider, data) ==
  /\ pc = "ready"
  /\ hydrations[provider] > 0
  /\ hydrations' = [hydrations EXCEPT ![provider] = @ - 1]
  /\ IF Truthy(data)
       THEN /\ applyMaskedKey(provider, OrEmpty(data))
            /\ localStorage' = [localStorage EXCEPT ![getStorageKey(provider)] = data]
            /\ scheduleKeySync(provider, OrEmpty(data))
            /\ keyNote' = [keyNote EXCEPT
                             !.emptySwitch = IF provider = providerInput THEN FALSE ELSE @,
                             !.focusFrom = {}]
       ELSE UNCHANGED <<keyCache, apiKeyInput, apiKeyVisible, localStorage, keyNote,
                        keyUpdateTimer>>
  /\ UNCHANGED <<pc, appInstance, providerSelect, providerInput, placeholder,
                 focused, burst, dirty>>
  /\ UNCHANGED <<stashVars, maskVars, copyVars>>

\* The response handler without the localStorage.setItem of line 53.
HydrateResponse_noStore(provider, data) ==
  /\ pc = "ready"
  /\ hydrations[provider] > 0
  /\ hydrations' = [hydrations EXCEPT ![provider] = @ - 1]
  /\ IF Truthy(data)
       THEN /\ applyMaskedKey(provider, OrEmpty(data))
            /\ keyNote' = [keyNote EXCEPT
                             !.emptySwitch = IF provider = providerInput THEN FALSE ELSE @,
                             !.focusFrom = {}]
       ELSE UNCHANGED <<keyCache, apiKeyInput, apiKeyVisible, keyNote>>
  /\ UNCHANGED <<pc, appInstance, localStorage, providerSelect, providerInput,
                 placeholder, focused, keyUpdateTimer, burst, dirty>>
  /\ UNCHANGED <<stashVars, maskVars, copyVars>>

\* The response of a GET /api/keys?provider=... (49-55): data is {} when
\* the fetch or res.json() fails, {<<>>} when the body has no api_key,
\* {key} when it has one.
HydrateResponse(provider, data) ==
  /\ pc = "ready"
  /\ hydrations[provider] > 0
  /\ hydrations' = [hydrations EXCEPT ![provider] = @ - 1]
  /\ IF Truthy(data)
       THEN /\ applyMaskedKey(provider, OrEmpty(data))
            /\ localStorage' = [localStorage EXCEPT ![getStorageKey(provider)] = data]
            /\ keyNote' = [keyNote EXCEPT
                             !.emptySwitch = IF provider = providerInput THEN FALSE ELSE @,
                             !.focusFrom = {}]
       ELSE UNCHANGED <<keyCache, apiKeyInput, apiKeyVisible, localStorage, keyNote>>
  /\ UNCHANGED <<pc, appInstance, providerSelect, providerInput, placeholder,
                 focused, keyUpdateTimer, burst, dirty>>
  /\ UNCHANGED <<stashVars, maskVars, copyVars>>

\* The document as served, before the script runs: nothing cached, no
\* timer, no request of this page in flight; localStorage is what the
\* browser kept.
BootPage(token) ==
  /\ pc' = "boot"
  /\ appInstance' = token
  /\ keyCache' = [p \in Providers |-> {}]
  /\ providerSelect' = "gemini"
  /\ providerInput' = ""
  /\ placeholder' = ""
  /\ apiKeyVisible' = [value |-> <<>>, masked |-> "unset"]
  /\ apiKeyInput' = <<>>
  /\ focused' = FALSE
  /\ keyUpdateTimer' = {}
  /\ hydrations' = [p \in Providers |-> 0]
  /\ keyNote' = NoNote
  /\ burst' = NoBurst
  /\ dirty' = [p \in Providers |-> FALSE]

\* The user reloads the page, or the backend has restarted and serves it
\* with another token: the script starts over on the kept localStorage.
Reload(token) ==
  /\ pc = "ready"
  /\ BootPage(token)
  /\ UNCHANGED localStorage
  /\ UNCHANGED <<stashVars, maskVars, copyVars>>

InitKeys ==
  /\ pc = "boot"
  /\ appInstance \in Tokens
  /\ localStorage \in {[k \in StorageKeys |-> {}], StaleStorage}
  /\ keyCache = [p \in Providers |-> {}]
  /\ providerSelect = "gemini"
  /\ providerInput = ""
  /\ placeholder = ""
  /\ apiKeyVisible = [value |-> <<>>, masked |-> "unset"]
  /\ apiKeyInput = <<>>
  /\ focused = FALSE
  /\ keyUpdateTimer = {}
  /\ hydrations = [p \in Providers |-> 0]
  /\ keyNote = NoNote
  /\ burst = NoBurst
  /\ dirty = [p \in Providers |-> FALSE]

(***************************************************************************)
(* maskKey on sample keys of every length up to MaxKeyLen.                 *)
(***************************************************************************)

MaxKeyLen == 34

SampleKeys == {<<>>} \cup {<<c>> \o repeat("x", n) : c \in {"s", "g", MaskGlyph}, n \in 0..(MaxKeyLen - 1)}

ApplyMask ==
  /\ maskOutput = {}
  /\ maskOutput' = {maskKey(maskInput)}
  /\ UNCHANGED maskInput
  /\ UNCHANGED <<stashVars, keyVars, copyVars>>

InitMaskIdle == maskInput = <<>> /\ maskOutput = {}

(***************************************************************************)
(* Copy controls: handleCopy (258-272) and the document click handler      *)
(* (274-278).                                                              *)
(***************************************************************************)

\* The .copy-button elements of the page and their data-copy-target: two
\* controls share "prompt", one of the "prompt" controls has no .copy-label,
\* and one control names a target whose text element is not on the page.
copyTarget == [b1 |-> "prompt", b2 |-> "prompt", b3 |-> "negative",
               b4 |-> "prompt", b5 |-> "missing"]

CopyButtons == DOMAIN copyTarget

\* The targets for which document.getElementById(`${target}-text`) exists.
CopyTargets == {"prompt", "negative"}

Unlabelled == {"b4"}

\* The delay of the revert timeout (269).
CopyDuration == 2000

\* Bounds of the copy model.
CopyTicks == 2          \* clock steps per revert delay
MaxPendingCopies == 2   \* clipboard writes pending at once, per target

CopyTickStep == CopyDuration \div CopyTicks

SinceCopiedCap == CopyDuration + CopyTickStep

\* document.querySelectorAll(`.copy-button[data-copy-target="${target}"]`)
\* without the buttons that have no .copy-label (262-265).
labelledButtons(target) ==
  {b \in CopyButtons : copyTarget[b] = target /\ b \notin Unlabelled}

\* document 'click' on a copy button (274-278): handleCopy(target) returns
\* when the text element is missing (259-260), else starts
\* navigator.clipboard.writeText (261).
CopyClick(b) ==
  LET target == copyTarget[b]
  IN  /\ IF target \in CopyTargets
           THEN /\ copyPending[target] < MaxPendingCopies
                /\ copyPending' = [copyPending EXCEPT ![target] = @ + 1]
           ELSE UNCHANGED copyPending
      /\ copyLast' = [op |-> "click", button |-> b]
      /\ UNCHANGED <<copyLabels, copyTimers, sinceCopied>>
      /\ UNCHANGED <<stashVars, keyVars, maskVars>>

\* The then-callback of writeText (261-271): every labelled button of the
\* target shows 'Copied!' and gets its own timeout of 2000.
CopyResolved(target) ==
  /\ copyPending[target] > 0
  /\ copyPending' = [copyPending EXCEPT ![target] = @ - 1]
  /\ copyLabels' = [b \in CopyButtons |->
                      IF b \in labelledButtons(target) THEN "Copied!" ELSE copyLabels[b]]
  /\ copyTimers' = copyTimers \cup
                     {[button |-> b, remaining |-> CopyDuration] : b \in labelledButtons(target)}
  /\ sinceCopied' = [sinceCopied EXCEPT ![target] = {0}]
  /\ copyLast' = [op |-> "resolved", button |-> target]
  /\ UNCHANGED <<stashVars, keyVars, maskVars>>

\* writeText rejects (no then-callback runs; 261 has no catch).
CopyRejected(target) ==
  /\ copyPending[target] > 0
  /\ copyPending' = [copyPending EXCEPT ![target] = @ - 1]
  /\ copyLast' = [op |-> "rejected", button |-> target]
  /\ UNCHANGED <<copyLabels, copyTimers, sinceCopied>>
  /\ UNCHANGED <<stashVars, keyVars, maskVars>>

\* The callback of a revert timeout (267-269).
CopyRevert ==
  /\ \E t \in copyTimers :
       /\ t.remaining = 0
       /\ copyLabels' = [copyLabels EXCEPT ![t.button] = "Copy"]
       /\ copyTimers' = copyTimers \ {t}
       /\ copyLast' = [op |-> "revert", button |-> t.button]
  /\ UNCHANGED <<copyPending, sinceCopied>>
  /\ UNCHANGED <<stashVars, keyVars, maskVars>>

\* Time passes: by one clock step, or up to the nearest deadline.  A
\* timeout that is due runs before more time passes.
CopyTick ==
  LET due == {t.remaining : t \in copyTimers}
      d == IF \E r \in due : r < CopyTickStep
             THEN CHOOSE r \in due : \A q \in due : r <= q
             ELSE CopyTickStep
  IN  /\ copyTimers # {}
      /\ \A t \in copyTimers : t.remaining > 0
      /\ copyTimers' = {[t EXCEPT !.remaining = @ - d] : t \in copyTimers}
      /\ sinceCopied' = [g \in DOMAIN sinceCopied |->
                           {Min(SinceCopiedCap, e + d) : e \in sinceCopied[g]}]
      /\ copyLast' = [op |-> "tick", button |-> "none"]
      /\ UNCHANGED <<copyLabels, copyPending>>
      /\ UNCHANGED <<stashVars, keyVars, maskVars>>

\* The copy controls as the page ships them.
InitCopy ==
  /\ copyLabels = [b \in CopyButtons |-> IF b \in Unlabelled THEN "none" ELSE "Copy"]
  /\ copyPending = [g \in CopyTargets |-> 0]
  /\ copyTimers = {}
  /\ sinceCopied = [g \in CopyTargets |-> {}]
  /\ copyLast = [op |-> "init", button |-> "none"]

(***************************************************************************)
(* The specifications.                                                     *)
(***************************************************************************)

Init == InitStash /\ InitKeys /\ InitMaskIdle /\ InitCopy

NextStash ==
  \/ \E files \in Batches : Drop(files)
  \/ \E files \in Batches : Change(files)
  \/ \E i \in 1..MaxImages : ClickRemove(i)
  \/ \E id \in IdSpace : RemoveAbsent(id)
  \/ AfterSwap

InitFreshPage == Init /\ appInstance = "A" /\ localStorage[STORAGE_SESSION] = {}

SpecStash == InitFreshPage /\ [][NextStash]_vars

NextKeys ==
  \/ EnsureFresh
  \/ InitialSync
  \/ \E provider \in SelectedProviders : ProviderChange(provider)
  \/ Focus
  \/ Blur
  \/ \E key \in Keys \cup {<<>>} \cup TypedOntoMask : Input(key)
  \/ TimerFire
  \/ Tick
  \/ \E provider \in Providers, data \in {{}, {<<>>}} \cup {{k} : k \in EnvKeys} :
       HydrateResponse(provider, data)
  \/ \E token \in Tokens : Reload(token)

SpecKeys == Init /\ [][NextKeys]_vars

InitMask ==
  /\ InitStash /\ InitKeys /\ InitCopy /\ appInstance = "A" /\ localStorage[STORAGE_SESSION] = {}
  /\ maskInput \in SampleKeys
  /\ maskOutput = {}

SpecMask == InitMask /\ [][ApplyMask]_vars

NextCopy ==
  \/ \E b \in CopyButtons : CopyClick(b)
  \/ \E target \in CopyTargets : CopyResolved(target)
  \/ \E target \in CopyTargets : CopyRejected(target)
  \/ CopyRevert
  \/ CopyTick

SpecCopy == InitFreshPage /\ [][NextCopy]_vars

(***************************************************************************)
(* Claims about the image stash (specification SpecStash).                 *)
(***************************************************************************)

\* The claim's own reading of "media type starts with image/".
IsImageType(t) ==
  /\ Len(t) >= 6
  /\ t[1] = "i" /\ t[2] = "m" /\ t[3] = "a" /\ t[4] = "g" /\ t[5] = "e" /\ t[6] = "/"

ImageCandidates(files) == SelectSeq(files, LAMBDA f : IsImageType(f.type))

\* The stash C1 expects: the prior list, then the first
\* min(6 - priorSize, k) image candidates in candidate order, each with
\* the token drawn for it and a URL minted for it.
ExpectedStash(prior, files, ids, counter) ==
  LET imgs == ImageCandidates(files)
      m == Min(6 - Len(prior), Len(imgs))
  IN  prior \o [j \in 1..m |-> [id |-> ids[j], file |-> imgs[j], url |-> counter + j]]

C2_InputFilesMirrorStash ==
  inputFiles = [i \in 1..Len(imageItems) |-> imageItems[i].file]

\* C7: between event handlers the submit control is enabled iff the stash
\* is not empty (disabled flag, both classes and aria-disabled agree).
C7_CanSubmitTracksStash ==
  /\ generateButton.disabled = ~(Len(imageItems) > 0)
  /\ generateButton.opacity60 = generateButton.disabled
  /\ generateButton.pointerEventsNone = generateButton.disabled
  /\ generateButton.ariaDisabled = (IF Len(imageItems) > 0 THEN "false" ELSE "true")

\* C7 witness: an htmx:afterSwap has been handled with one item in the
\* stash and the control is enabled.
C7_Witness ==
  /\ lastOp.op = "afterSwap"
  /\ Len(imageItems) = 1
  /\ ~generateButton.disabled

\* C8: removeFileById(id) with an id no item carries leaves the item list,
\* the revoked URLs and the submit control as they were.
C8_RemoveAbsentIsNoOp ==
  [][\A id \in IdSpace :
       ((\A i \in 1..Len(imageItems) : imageItems[i].id # id) /\ RemoveCall(id)) =>
         /\ imageItems' = imageItems
         /\ revokedUrls' = revokedUrls
         /\ generateButton' = generateButton]_vars

\* C8 witness: removeFileById has run with an absent id on a stash that
\* holds items.
C8_Witness ==
  /\ lastOp.op = "removeAbsent"
  /\ Len(imageItems) >= 2

\* C11: every preview handle is revoked exactly once, when its item leaves
\* the stash: no item in the stash has a revoked handle, no handle is
\* revoked twice, and every handle minted for an item that has left the
\* stash has been revoked.
C11_HandlesRevokedOnceAtRemoval ==
  LET present == {imageItems[i].url : i \in 1..Len(imageItems)}
  IN  /\ \A u \in present : u \notin revokedUrls /\ u \notin DOMAIN revokeCalls
      /\ \A u \in DOMAIN revokeCalls : revokeCalls[u] = 1
      /\ \A u \in 1..urlCounter :
           u \notin present => (u \in revokedUrls /\ u \in DOMAIN revokeCalls)

\* C12: no id is issued twice in one page load, so that removeFileById(id)
\* for a present id removes exactly one item and leaves the other items and
\* their order as they were.
C12_IdsUniqueRemovalTakesOne ==
  [][/\ \A id \in IdSpace : issuedIds'[id] <= 1
     /\ \A id \in IdSpace :
          ((\E i \in 1..Len(imageItems) : imageItems[i].id = id) /\ RemoveCall(id)) =>
            \E i \in 1..Len(imageItems) :
              /\ imageItems[i].id = id
              /\ imageItems' = SubSeq(imageItems, 1, i - 1)
                                 \o SubSeq(imageItems, i + 1, Len(imageItems))]_vars

(***************************************************************************)
(* Claims about maskKey (specification SpecMask).                          *)
(***************************************************************************)

\* C9: for a non-empty key k, maskKey(k) consists of the mask glyph only and
\* has length clamp(len(k), 6, 32): 6 when len(k) <= 6, 32 when
\* len(k) >= 32, len(k) between.
C9_MaskLengthClamped ==
  \A m \in maskOutput :
    Len(maskInput) >= 1 =>
      /\ \A i \in 1..Len(m) : m[i] = "*"
      /\ Len(m) = (IF Len(maskInput) <= 6 THEN 6
                   ELSE IF Len(maskInput) >= 32 THEN 32
                   ELSE Len(maskInput))

\* C9 witness: maskKey has been applied to a key longer than 32 and has
\* returned 32 glyphs.
C9_Witness ==
  /\ Len(maskInput) = 33
  /\ \E m \in maskOutput : Len(m) = 32

(***************************************************************************)
(* Claims about the key bar (specification SpecKeys).                      *)
(***************************************************************************)

CredentialEntries == {"gemini_api_key", "openai_api_key", "grok_api_key"}

\* C3: on page load, a recorded session token that is absent or differs
\* from the current one has every credential entry and the provider entry
\* removed and the current token recorded; an equal token leaves the storage
\* unchanged; and no hydration request is issued before that step.
C3_SessionGuardWipesOrKeeps ==
  [][/\ (pc = "boot" /\ pc' # "boot") =>
          IF localStorage["prompt_alchemy_session"] # {appInstance}
            THEN /\ \A k \in CredentialEntries : localStorage'[k] = {}
                 /\ localStorage'["prompt_alchemy_provider"] = {}
                 /\ localStorage'["prompt_alchemy_session"] = {appInstance}
            ELSE localStorage' = localStorage
     /\ (pc = "boot" \/ pc' = "boot") => InFlight' = 0]_vars

\* C3 witness: the guard has just wiped a storage that held credentials.
C3_Witness ==
  /\ pc = "guarded"
  /\ keyNote.guard = "wiped"
  /\ keyNote.hadEntries

\* C4: a burst of non-empty edits to one provider, each within the delay of
\* the one before, followed by a quiet period longer than the delay, has
\* sent exactly one write, carrying the provider and value of the last edit.
C4_BurstSendsOneWrite ==
  (burst.edits >= 1 /\ burst.same /\ burst.sinceEdit > DebounceDelay) =>
    /\ burst.writes = 1
    /\ burst.lastWrite = burst.lastEdit

\* C4 witness: two edits to one provider within the delay, then the quiet
\* period, and the one write has gone out.
C4_Witness ==
  /\ burst.edits = 2
  /\ burst.same
  /\ burst.sinceEdit > DebounceDelay
  /\ burst.writes = 1

\* C5: a switch to a provider with a stored credential shows its masked
\* projection with masked=true; a switch to one without shows an empty field
\* with masked=false, and the field stays so until the user types or that
\* provider's own hydration brings a value, whatever other hydrations are
\* outstanding.
C5_SwitchShowsMaskOrStaysEmpty ==
  [][/\ (pc' = "ready" /\ providerInput' # providerInput) =>
          IF localStorage[providerInput' \o "_api_key"] # {}
            THEN /\ apiKeyVisible'.masked = "true"
                 /\ \A k \in localStorage[providerInput' \o "_api_key"] :
                      apiKeyVisible'.value = maskKey(k)
            ELSE apiKeyVisible' = [value |-> <<>>, masked |-> "false"]
     /\ keyNote'.emptySwitch =>
          apiKeyVisible' = [value |-> <<>>, masked |-> "false"]]_vars

\* C6: every provider's last typed non-empty key is sent to POST /api/keys:
\* once no timeout is pending, no provider has a typed key that was not sent.
C6_TypedKeysAreSent ==
  (pc = "ready" /\ keyUpdateTimer = {}) => \A p \in Providers : ~dirty[p]

\* C10: whenever the display field is masked, it shows the masked projection
\* of the selected provider's cached credential and the hidden field holds
\* that credential.
C10_MaskedDisplayIsSelectedProviders ==
  (pc = "ready" /\ apiKeyVisible.masked = "true") =>
    /\ Truthy(keyCache[providerInput])
    /\ \A k \in keyCache[providerInput] :
         /\ apiKeyVisible.value = maskKey(k)
         /\ apiKeyInput = k

\* C13: the write that fires carries the provider and value of the edit that
\* scheduled it, also when the selected provider has changed since; a change
\* of the selected provider leaves the pending timeout as it was.
C13_WriteCarriesCapturedPair ==
  [][/\ (pc = "ready" /\ pc' = "ready" /\ providerInput' # providerInput) =>
          keyUpdateTimer' = keyUpdateTimer
     /\ (TimerFire /\ burst.lastEdit # {}) =>
          burst'.lastWrite = burst.lastEdit]_vars

\* C13 witness: the write has fired while another provider than the edit's
\* was selected, and it carried the edit's provider and value.
C13_Witness ==
  /\ burst.firedAway
  /\ burst.lastEdit # {}
  /\ burst.lastWrite = burst.lastEdit
  /\ \A w \in burst.lastWrite : w.provider # providerInput

\* The bodies a GET /api/keys response can carry: none (failure), no
\* api_key, an api_key.
ResponseBodies == {{}, {<<>>}, {KeyA}, {KeyB}}

\* C14: the completion of a hydration request sends no write and leaves the
\* debounce timer as it was; with a non-empty value it populates the
\* provider's in-memory and persistent cache entries and the masked display
\* and nothing else of the store; on failure or an empty value it changes
\* nothing.
C14_HydrationNeverWritesBack ==
  [][(pc = "ready" /\ pc' = "ready" /\ hydrations' # hydrations) =>
       \A provider \in Providers, data \in ResponseBodies :
         HydrateResponse(provider, data) =>
           /\ keyUpdateTimer' = keyUpdateTimer
           /\ burst'.writes = burst.writes /\ burst'.lastWrite = burst.lastWrite
           /\ dirty' = dirty
           /\ providerInput' = providerInput /\ providerSelect' = providerSelect
           /\ \A q \in Providers \ {provider} :
                /\ keyCache'[q] = keyCache[q]
                /\ localStorage'[q \o "_api_key"] = localStorage[q \o "_api_key"]
           /\ localStorage'["prompt_alchemy_provider"] = localStorage["prompt_alchemy_provider"]
           /\ localStorage'["prompt_alchemy_session"] = localStorage["prompt_alchemy_session"]
           /\ IF data # {} /\ data # {<<>>}
                THEN /\ keyCache'[provider] = data
                     /\ localStorage'[provider \o "_api_key"] = data
                     /\ \A k \in data :
                          apiKeyVisible' = [value |-> maskKey(k), masked |-> "true"]
                ELSE /\ keyCache' = keyCache
                     /\ localStorage' = localStorage
                     /\ apiKeyVisible' = apiKeyVisible
                     /\ apiKeyInput' = apiKeyInput]_vars

\* C14 witness: a timeout is pending for the last edit of a provider whose
\* caches hold another value, which only a hydration response that
\* completed after the edit can have put there; the timeout is still the
\* one the edit scheduled.
C14_Witness ==
  \E t \in keyUpdateTimer :
    /\ burst.lastEdit = {[provider |-> t.provider, key |-> t.key]}
    /\ keyCache[t.provider] # {t.key}
    /\ keyCache[t.provider] # {} /\ keyCache[t.provider] # {<<>>}
    /\ localStorage[t.provider \o "_api_key"] = keyCache[t.provider]
    /\ apiKeyVisible.masked = "true"

\* C15: focus on a display field that shows the selected provider's masked
\* projection empties it with masked=false and changes neither cache; a blur
\* that follows with nothing typed restores the same projection with
\* masked=true; a blur with a non-empty display, or with no cached value for
\* the selected provider, changes nothing.
C15_FocusBlurRoundTrip ==
  [][/\ (pc = "ready" /\ pc' = "ready" /\ ~focused /\ focused') =>
          /\ keyCache' = keyCache
          /\ localStorage' = localStorage
          /\ apiKeyVisible.masked = "true" =>
               apiKeyVisible' = [value |-> <<>>, masked |-> "false"]
     /\ (pc = "ready" /\ pc' = "ready" /\ focused /\ ~focused') =>
          /\ \A d \in keyNote.focusFrom, k \in keyCache[providerInput] :
               (k # <<>> /\ d = [value |-> maskKey(k), masked |-> "true"]) =>
                 /\ apiKeyVisible' = d
                 /\ keyCache' = keyCache
                 /\ localStorage' = localStorage
          /\ (apiKeyVisible.value # <<>> \/ keyCache[providerInput] \in {{}, {<<>>}}) =>
               /\ apiKeyVisible' = apiKeyVisible
               /\ apiKeyInput' = apiKeyInput
               /\ keyCache' = keyCache
               /\ localStorage' = localStorage]_vars

\* C15 witness: the field showed the selected provider's masked projection,
\* was focused and blurred with nothing typed, and shows the projection
\* again.
C15_Witness ==
  /\ pc = "ready" /\ ~focused
  /\ \E d \in keyNote.focusFrom, k \in keyCache[providerInput] :
       /\ k # <<>>
       /\ d = [value |-> maskKey(k), masked |-> "true"]
       /\ apiKeyVisible = d

\* C16: emptying the display field clears the selected provider's in-memory
\* and persistent cache entries, and from then on, until a value is typed
\* again, no write for that provider is sent: a timeout pending at the
\* moment of the clear does not fire its write.
C16_RevokedKeyIsNotSent ==
  [][/\ Input(<<>>) =>
          /\ keyCache'[providerInput] \in {{}, {<<>>}}
          /\ localStorage'[providerInput \o "_api_key"] = {}
     /\ TimerFire =>
          \A t \in keyUpdateTimer \ keyUpdateTimer' : keyCache[t.provider] # {<<>>}]_vars

\* C17: a hydration response for a provider whose value the user has entered
\* since the request was issued leaves the in-memory and persistent cache
\* entries of that provider holding the entered value.
C17_HydrationKeepsUserEdit ==
  [][(pc = "ready" /\ pc' = "ready" /\ hydrations' # hydrations) =>
       \A provider \in Providers, data \in ResponseBodies :
         HydrateResponse(provider, data) =>
           \A e \in burst.lastEdit :
             (e.provider = provider /\ keyCache[provider] = {e.key}) =>
               /\ keyCache'[provider] = {e.key}
               /\ localStorage'[provider \o "_api_key"] = {e.key}]_vars

\* C19: within a page load, for every provider whose in-memory cache entry
\* holds a non-empty value, the persistent entry exists and holds the same
\* value.
C19_CachesCoherent ==
  \A p \in Providers :
    (keyCache[p] # {} /\ keyCache[p] # {<<>>}) =>
      localStorage[p \o "_api_key"] = keyCache[p]

\* C19 witness: two providers hold different non-empty cached values, each
\* with the same value in its persistent entry.
C19_Witness ==
  /\ pc = "ready"
  /\ keyCache["gemini"] \in {{KeyA}, {KeyB}}
  /\ keyCache["openai"] \in {{KeyA}, {KeyB}}
  /\ keyCache["gemini"] # keyCache["openai"]
  /\ localStorage["gemini_api_key"] = keyCache["gemini"]
  /\ localStorage["openai_api_key"] = keyCache["openai"]

\* The values the store holds or sends: cached, stored, pending in a
\* timeout, sent in the last write.
HeldCredentials ==
  UNION {keyCache[p] : p \in Providers}
    \cup UNION {localStorage[p \o "_api_key"] : p \in Providers}
    \cup {t.key : t \in keyUpdateTimer}
    \cup {w.key : w \in burst.lastWrite}

\* C18: no value written to the in-memory cache, to persistent storage or
\* into a write request contains mask glyphs of the displayed projection:
\* each is a string the user typed into an unmasked field or a string the
\* backend returned.
C18_NoMaskGlyphInCredentials ==
  \A v \in HeldCredentials : \A i \in 1..Len(v) : v[i] # "*"

(***************************************************************************)
(* Claims about the copy controls (specification SpecCopy).                *)
(***************************************************************************)

\* C20: after a successful copy for a target, every labelled control of
\* that target shows "Copied!" for the full 2000 counted from that copy,
\* also when the revert timeout of an earlier copy is still pending, and
\* shows "Copy" again once that time is over and the timeouts have run.
C20_CopiedShownForFullDuration ==
  \A g \in {"prompt", "negative"} :
    \A b \in {c \in DOMAIN copyTarget : copyTarget[c] = g /\ copyLabels[c] # "none"} :
      \A e \in sinceCopied[g] :
        /\ e < 2000 => copyLabels[b] = "Copied!"
        /\ (e > 2000 /\ copyTimers = {}) => copyLabels[b] = "Copy"

====
